---- MODULE Spec2Model ----
(***************************************************************************)
(* Model of Database/DatabaseConnect.py: class DatabaseConnection.         *)
(* One object is constructed (__init__) and then used: execute_query,      *)
(* get_database_url and get_all_databases_metadata, the latter stepping    *)
(* through its loop one database at a time.  The database server is the    *)
(* environment: every connect / reflect / execute draws its outcome        *)
(* nondeterministically.  Python strings are TLA+ strings, str.format's    *)
(* padding and str.join are computed character for character.              *)
(***************************************************************************)
EXTENDS Integers, Sequences, FiniteSets, TLC

VARIABLES
    pc,                 \* "new" | "raised" | "idle" | "loop" | "done"
    reclaims,           \* whether the runtime reclaims an engine as soon as nothing refers to it
    op,                 \* the method last called on the object ("" before any call)
    arg_dialect,        \* the dialect argument given to __init__
    arg_database_name,  \* the database_name argument given to __init__
    self_username, self_password, self_hostname, self_port, self_dialect,
    self_database_name, \* self._database_name
    self_database_url,  \* self._database_url
    self_engine,        \* self._engine: an engine id, 0 for None
    engines,            \* engines created and neither disposed nor reclaimed
    checked_out,        \* connections checked out of a pool and not yet returned
    next_id,            \* id of the next engine to be created
    run_first_id,       \* next_id when get_all_databases_metadata was called
    raised,             \* the exception that left the last call ("" if none)
    ret,                \* the string returned by the last call
    query_result,       \* the value returned by execute_query
    mask_password,      \* the mask_password argument of the last get_database_url call
    branch,             \* "specified" | "discovered": which loop of get_all_databases_metadata runs
    databases,          \* the sequence the running loop iterates over
    idx,                \* number of databases the running loop has processed
    metadata_reports,   \* the local list metadata_reports
    outcomes,           \* what the server did for each database processed so far
    lister_calls        \* number of get_all_databases calls made by get_all_databases_metadata

vars == <<pc, reclaims, op, arg_dialect, arg_database_name, self_username, self_password,
          self_hostname, self_port, self_dialect, self_database_name,
          self_database_url, self_engine, engines, checked_out, next_id, run_first_id,
          raised, ret, query_result, mask_password, branch, databases, idx,
          metadata_reports, outcomes, lister_calls>>

----------------------------------------------------------------------------
\* Bound of the model.

\* Longest list of database names given to __init__ or returned by the server.
MaxDatabases == 2

----------------------------------------------------------------------------
\* Python values.

\* Optional[T]: None and a present value.
None == [isNone |-> TRUE]
Some(v) == [isNone |-> FALSE, val |-> v]

\* A constructor argument with its Python type.
PyStr(s) == [type |-> "str", str |-> s, list |-> <<>>, int |-> 0]
PyList(l) == [type |-> "list", str |-> "", list |-> l, int |-> 0]
PyInt(n) == [type |-> "int", str |-> "", list |-> <<>>, int |-> n]

RECURSIVE Repeat(_, _)
\* c * n
Repeat(c, n) ==
    IF n <= 0 THEN ""
    ELSE LET half == Repeat(c, n \div 2)
         IN  half \o half \o (IF n % 2 = 1 THEN c ELSE "")

\* "{:<w}".format(s): left-justify in a field of width w, never truncating.
LJust(s, w) == s \o Repeat(" ", w - Len(s))

RECURSIVE Join(_, _)
\* sep.join(parts)
Join(sep, parts) ==
    IF parts = <<>> THEN ""
    ELSE IF Len(parts) = 1 THEN parts[1]
    ELSE parts[1] \o sep \o Join(sep, Tail(parts))

\* sub in s
Contains(s, sub) ==
    \E k \in 1..(Len(s) - Len(sub) + 1) : SubSeq(s, k, k + Len(sub) - 1) = sub

\* Number of (possibly overlapping) occurrences of sub in s.
Count(s, sub) ==
    Cardinality({k \in 1..(Len(s) - Len(sub) + 1) : SubSeq(s, k, k + Len(sub) - 1) = sub})

\* All sequences over S of length at most n.
RECURSIVE SeqsUpTo(_, _)
SeqsUpTo(S, n) ==
    IF n = 0 THEN {<<>>}
    ELSE LET shorter == SeqsUpTo(S, n - 1)
         IN  shorter \cup {Append(s, x) : s \in shorter, x \in S}

----------------------------------------------------------------------------
\* Exceptions.

NoError == [type |-> "", msg |-> ""]
Error(type, msg) == [type |-> type, msg |-> msg]

\* The exception classes the server and the driver layer raise here; the first
\* three derive from sqlalchemy.exc.SQLAlchemyError, ModuleNotFoundError from
\* ImportError; all derive from Exception.
SQLAlchemyErrors == {"ArgumentError", "OperationalError", "ProgrammingError"}
Exceptions == SQLAlchemyErrors \cup {"ModuleNotFoundError", "ValueError"}

\* A handler that lets driver import errors through.
ExceptSQLAlchemyError(e) == e.type \in SQLAlchemyErrors

\* except Exception as e: the clause of execute_query, get_all_databases and
\* get_database_metadata.
ExceptException(e) == e.type \in Exceptions

----------------------------------------------------------------------------
\* The class and its constructor.

\* SUPPORTED_DIALECTS, in insertion order: <<dialect, driver>>.
SUPPORTED_DIALECTS ==
    << <<"mysql", "pymysql">>, <<"postgresql", "psycopg2">>, <<"oracle", "cx_oracle">> >>

\* list(d.keys())
Keys(d) == [k \in 1..Len(d) |-> d[k][1]]

\* d[key]
Lookup(d, key) == d[CHOOSE k \in 1..Len(d) : d[k][1] = key][2]

\* repr of a list of strings: ['a', 'b']
ListRepr(l) == "[" \o Join(", ", [k \in 1..Len(l) |-> "'" \o l[k] \o "'"]) \o "]"

\* A membership test against the driver names instead of the dialect names.
DialectIsDriver(dialect) == \E k \in 1..Len(SUPPORTED_DIALECTS) : SUPPORTED_DIALECTS[k][2] = dialect

\* dialect in self.SUPPORTED_DIALECTS
DialectSupported(dialect) == \E k \in 1..Len(SUPPORTED_DIALECTS) : SUPPORTED_DIALECTS[k][1] = dialect

\* The ValueError of line 23.
UnsupportedDialect ==
    Error("ValueError",
          "Unsupported dialect. Supported dialects: " \o ListRepr(Keys(SUPPORTED_DIALECTS)))

\* The ValueError of line 36.
InvalidArgument == Error("ValueError", "database_name must be a string or a list of strings.")

\* Lines 31-36: the value given to self._database_name, None where line 36 raises.
NormalizeDatabaseName(database_name) ==
    IF database_name.type = "str"
    THEN Some(IF database_name.str # "" THEN <<database_name.str>> ELSE <<>>)
    ELSE IF database_name.type = "list"
    THEN Some(database_name.list)
    ELSE None

\* "{0}+{1}://{2}:{3}@{4}:{5}".format(dialect, driver, username, password, hostname, port)
FormatURL(dialect, username, password, hostname, port) ==
    dialect \o "+" \o Lookup(SUPPORTED_DIALECTS, dialect) \o "://" \o username \o ":"
        \o password \o "@" \o hostname \o ":" \o ToString(port)

\* The names bound in the body of class DatabaseConnection: what attribute
\* lookup on an instance finds besides the fields __init__ assigns.
\* get_database_url is not among them: its def statement is indented into the
\* body of __init__ (line 49), where it only binds a local name.
ClassAttributes ==
    {"SUPPORTED_DIALECTS", "__init__", "create_engine", "execute_query",
     "get_all_databases", "get_database_metadata", "generate_schema_report",
     "get_all_databases_metadata"}

\* The body of the function defined at lines 49-68.
get_database_url(mask) ==
    LET password == IF mask THEN "****" ELSE self_password
    IN  FormatURL(self_dialect, self_username, password, self_hostname, self_port)

----------------------------------------------------------------------------
\* Engines and connections.  h is the part of the state the methods below
\* change: [self_engine, engines, next_id, checked_out].

\* Lines 70-74.  The engine self._engine referred to before loses its last
\* references (self._engine, and the sessionmaker bound to it) here.
create_engine(h, database_name) ==
    LET full_url == IF database_name # ""
                    THEN self_database_url \o "/" \o database_name
                    ELSE self_database_url
        new == [id |-> h.next_id, url |-> full_url, pooled |-> 0]
        kept == IF reclaims THEN {e \in h.engines : e.id # h.self_engine} ELSE h.engines
    IN  [h EXCEPT !.self_engine = new.id,
                  !.engines = kept \cup {new},
                  !.next_id = h.next_id + 1]

\* A connection of the engine self._engine is opened and checked out of its pool.
connect(h) ==
    [h EXCEPT !.engines = {IF e.id = h.self_engine THEN [e EXCEPT !.pooled = 1] ELSE e
                              : e \in h.engines},
              !.checked_out = h.checked_out + 1]

\* The end of a with block over a connection: it goes back to its pool, open.
release(h) == [h EXCEPT !.checked_out = h.checked_out - 1]

\* What the server and the driver layer do to one call: the step at which an
\* exception is raised ("" for none), the exception, and the data produced.
Raises(at, type) == [at |-> at, error |-> Error(type, at \o " failed"), data |-> <<>>]
Succeeds(data) == [at |-> "", error |-> NoError, data |-> data]

\* Lines 75-97.
execute_query(h, database_name, o) ==
    LET body ==
            IF o.at = "create_engine"
            THEN [h |-> h, exc |-> o.error, value |-> None]
            ELSE LET h1 == create_engine(h, database_name)
                 IN  IF o.at = "connect"
                     THEN [h |-> h1, exc |-> o.error, value |-> None]
                     ELSE LET h2 == release(connect(h1))
                          IN  IF o.at = "execute"
                              THEN [h |-> h2, exc |-> o.error, value |-> None]
                              ELSE [h |-> h2, exc |-> NoError, value |-> Some(o.data)]
    IN  IF body.exc # NoError /\ ExceptException(body.exc)
        THEN [body EXCEPT !.exc = NoError, !.value = None]
        ELSE body

\* dialect_queries, lines 103-107.
dialect_queries ==
    << <<"mysql", "SHOW DATABASES;">>,
       <<"postgresql", "SELECT datname FROM pg_database WHERE datistemplate = false;">>,
       <<"oracle", "SELECT name FROM v$database;">> >>

\* dialect_queries.get(dialect)
Get(d, key) ==
    IF \E k \in 1..Len(d) : d[k][1] = key THEN Some(Lookup(d, key)) ELSE None

\* Lines 100-118.
get_all_databases(h, o) ==
    LET body ==
            IF o.at = "create_engine"
            THEN [h |-> h, exc |-> o.error, value |-> <<>>]
            ELSE LET h1 == create_engine(h, "")
                 IN  IF o.at = "connect"
                     THEN [h |-> h1, exc |-> o.error, value |-> <<>>]
                     ELSE LET h2 == release(connect(h1))
                              query == Get(dialect_queries, self_dialect)
                          IN  IF query.isNone
                              THEN [h |-> h2, exc |-> Error("ValueError", "Unsupported dialect."),
                                    value |-> <<>>]
                              ELSE IF o.at = "execute"
                              THEN [h |-> h2, exc |-> o.error, value |-> <<>>]
                              ELSE [h |-> h2, exc |-> NoError, value |-> o.data]
    IN  IF body.exc # NoError /\ ExceptException(body.exc)
        THEN [body EXCEPT !.exc = NoError, !.value = <<>>]
        ELSE body

RECURSIVE ForeignKeys(_)
\* Lines 134-142: the foreign keys of the columns, column by column.
ForeignKeys(columns) ==
    IF columns = <<>> THEN <<>>
    ELSE LET column == Head(columns)
         IN  [k \in 1..Len(column.foreign_keys) |->
                 [column |-> column.name,
                  references |-> [table |-> column.foreign_keys[k].table,
                                  column |-> column.foreign_keys[k].column]]]
             \o ForeignKeys(Tail(columns))

\* Lines 128-132: table_metadata of one reflected table.
TableMetadata(table) ==
    [name |-> table.name,
     columns |-> [k \in 1..Len(table.columns) |-> table.columns[k].name],
     foreign_keys |-> ForeignKeys(table.columns)]

\* Lines 120-150.  o.data is what metadata.reflect leaves in metadata.tables.
get_database_metadata(h, database_name, o) ==
    LET body ==
            IF o.at = "create_engine"
            THEN [h |-> h, exc |-> o.error, value |-> None]
            ELSE LET h1 == create_engine(h, database_name)
                 IN  IF o.at = "connect"
                     THEN [h |-> h1, exc |-> o.error, value |-> None]
                     ELSE LET h2 == release(connect(h1))
                          IN  IF o.at = "reflect"
                              THEN [h |-> h2, exc |-> o.error, value |-> None]
                              ELSE [h |-> h2, exc |-> NoError,
                                    value |-> Some([k \in 1..Len(o.data) |->
                                                        TableMetadata(o.data[k])])]
    IN  IF body.exc # NoError /\ ExceptException(body.exc)
        THEN [body EXCEPT !.exc = NoError, !.value = None]
        ELSE body

\* "{0} -> {1}.{2}".format(rel['column'], rel['references']['table'], rel['references']['column'])
Relationship(rel) == rel.column \o " -> " \o rel.references.table \o "." \o rel.references.column

\* Lines 161-183: the line appended to report_lines for one table.
ReportLine(database_name, table) ==
    LET columns == Join(", ", table.columns)
        relationships ==
            IF table.foreign_keys # <<>>
            THEN "\n" \o Repeat(" ", 51) \o "Relationships: "
                 \o Join(", ", [k \in 1..Len(table.foreign_keys) |->
                                   Relationship(table.foreign_keys[k])])
            ELSE ""
    IN  LJust(database_name, 20) \o " " \o LJust(table.name, 30) \o " "
            \o LJust(columns, 60) \o relationships

\* Lines 152-185.
generate_schema_report(database_name, tables_metadata) ==
    IF tables_metadata = <<>>
    THEN "No metadata found for database: " \o database_name
    ELSE LET report_lines ==
                 << LJust("Database Name", 20) \o " " \o LJust("Tables", 30) \o " "
                        \o LJust("Columns", 60),
                    Repeat("-", 110) >>
                 \o [k \in 1..Len(tables_metadata) |->
                        ReportLine(database_name, tables_metadata[k])]
         IN  Join("\n", report_lines)

\* A test that lets an empty list of tables through.
IsNotNone(tables_metadata) == ~tables_metadata.isNone

\* if tables_metadata: neither None nor an empty list (lines 192, 204).
Truthy(tables_metadata) == ~tables_metadata.isNone /\ tables_metadata.val # <<>>

\* A join that falls back to nothing.
JoinOnly(reports) == Join("\n\n", reports)

\* A join that ends the text with the separator.
JoinTerminated(reports) ==
    IF reports # <<>> THEN Join("\n\n", reports) \o "\n\n"
    ELSE "No metadata found for the specified databases."

\* Line 194: the value returned when specific names were given.
SpecifiedResult(reports) ==
    IF reports # <<>> THEN Join("\n\n", reports)
    ELSE "No metadata found for the specified databases."

\* Line 207: the value returned when the names were discovered.
DiscoveredResult(reports) == Join("\n\n", reports)

----------------------------------------------------------------------------
\* Inputs.

Usernames == {"root"}
Passwords == {"1234"}
Hostnames == {"127.0.0.1"}
Ports == {3306}
Dialects == {"mysql", "postgresql", "oracle", "sqlite"}
DatabaseNames == {"world", "employees"}
DatabaseNameArguments ==
    {PyStr(""), PyStr(" "), PyStr("world"), PyInt(42)}
        \cup {PyList(l) : l \in SeqsUpTo(DatabaseNames, MaxDatabases)}

\* Reflected tables: [name, columns], each column [name, foreign_keys].
Column(name) == [name |-> name, foreign_keys |-> <<>>]
ColumnFK(name, table, column) ==
    [name |-> name, foreign_keys |-> <<[table |-> table, column |-> column]>>]

city ==
    [name |-> "city",
     columns |-> <<Column("id"), Column("name"), ColumnFK("countrycode", "country", "code")>>]
departments == [name |-> "departments", columns |-> <<Column("dept_no"), Column("dept_name")>>]
dept_emp ==
    [name |-> "dept_emp",
     columns |-> <<ColumnFK("emp_no", "employees", "emp_no"),
                   ColumnFK("dept_no", "departments", "dept_no")>>]

\* What reflection of one database may leave in metadata.tables.
Schemas == {<<>>, <<city>>, <<departments, dept_emp>>}

ReflectOutcomes ==
    {Raises("create_engine", "ModuleNotFoundError"), Raises("connect", "OperationalError"),
     Raises("reflect", "ProgrammingError")}
        \cup {Succeeds(t) : t \in Schemas}

\* A server lists each of its databases once.
ListOutcomes ==
    {Raises("create_engine", "ModuleNotFoundError"), Raises("connect", "OperationalError"),
     Raises("execute", "ProgrammingError")}
        \cup {Succeeds(l) : l \in {q \in SeqsUpTo(DatabaseNames, MaxDatabases) :
                                      \A a, b \in 1..Len(q) : q[a] = q[b] => a = b}}

QueryOutcomes ==
    {Raises("create_engine", "ModuleNotFoundError"), Raises("connect", "OperationalError"),
     Raises("execute", "ProgrammingError"), Succeeds(<<>>), Succeeds(<<"Kabul">>)}

----------------------------------------------------------------------------
\* State after nothing has been constructed.

Init ==
    /\ pc = "new"
    /\ reclaims \in BOOLEAN
    /\ op = ""
    /\ arg_dialect = ""
    /\ arg_database_name = PyStr("")
    /\ self_username = "" /\ self_password = "" /\ self_hostname = ""
    /\ self_port = 0 /\ self_dialect = ""
    /\ self_database_name = <<>>
    /\ self_database_url = ""
    /\ self_engine = 0
    /\ engines = {}
    /\ checked_out = 0
    /\ next_id = 1
    /\ run_first_id = 1
    /\ raised = NoError
    /\ ret = ""
    /\ query_result = None
    /\ mask_password = FALSE
    /\ branch = ""
    /\ databases = <<>>
    /\ idx = 0
    /\ metadata_reports = <<>>
    /\ outcomes = <<>>
    /\ lister_calls = 0

\* DatabaseConnection(username, password, hostname, port, dialect, database_name)
Construct(username, password, hostname, port, dialect, database_name) ==
    /\ pc = "new"
    /\ arg_dialect' = dialect
    /\ arg_database_name' = database_name
    /\ IF ~DialectSupported(dialect)
       THEN /\ raised' = UnsupportedDialect
            /\ pc' = "raised"
            /\ UNCHANGED <<self_username, self_password, self_hostname, self_port,
                           self_dialect, self_database_name, self_database_url>>
       ELSE /\ self_username' = username
            /\ self_password' = password
            /\ self_hostname' = hostname
            /\ self_port' = port
            /\ self_dialect' = dialect
            /\ LET names == NormalizeDatabaseName(database_name)
               IN  IF names.isNone
                   THEN /\ raised' = InvalidArgument
                        /\ pc' = "raised"
                        /\ UNCHANGED <<self_database_name, self_database_url>>
                   ELSE /\ self_database_name' = names.val
                        /\ self_database_url' =
                               FormatURL(dialect, username, password, hostname, port)
                        /\ raised' = NoError
                        /\ pc' = "idle"
    /\ UNCHANGED <<reclaims, op, self_engine, engines, checked_out, next_id,
                   run_first_id, ret, query_result, mask_password, branch, databases, idx,
                   metadata_reports, outcomes, lister_calls>>

\* db.get_database_url(mask_password) on the constructed object.
CallGetDatabaseUrl(mask) ==
    /\ pc = "idle"
    /\ op = ""
    /\ op' = "get_database_url"
    /\ mask_password' = mask
    /\ IF "get_database_url" \in ClassAttributes
       THEN /\ ret' = get_database_url(mask)
            /\ raised' = NoError
       ELSE /\ raised' = Error("AttributeError",
                   "'DatabaseConnection' object has no attribute 'get_database_url'")
            /\ UNCHANGED ret
    /\ UNCHANGED <<run_first_id, pc, reclaims, arg_dialect, arg_database_name, self_username,
                   self_password, self_hostname, self_port, self_dialect,
                   self_database_name, self_database_url, self_engine, engines,
                   checked_out, next_id, query_result, branch, databases, idx,
                   metadata_reports, outcomes, lister_calls>>

\* The part of the state the methods change, as they take and return it.
Heap ==
    [self_engine |-> self_engine, engines |-> engines, next_id |-> next_id,
     checked_out |-> checked_out]

SetHeap(h) ==
    /\ self_engine' = h.self_engine
    /\ engines' = h.engines
    /\ next_id' = h.next_id
    /\ checked_out' = h.checked_out

\* db.execute_query(query, database_name) on the constructed object.
CallExecuteQuery(database_name, o) ==
    /\ pc = "idle"
    /\ op = ""
    /\ op' = "execute_query"
    /\ LET r == execute_query(Heap, database_name, o)
       IN  /\ SetHeap(r.h)
           /\ raised' = r.exc
           /\ query_result' = r.value
    /\ outcomes' = <<o>>
    /\ UNCHANGED <<run_first_id, pc, reclaims, arg_dialect, arg_database_name, self_username,
                   self_password, self_hostname, self_port, self_dialect,
                   self_database_name, self_database_url, ret, mask_password, branch,
                   databases, idx, metadata_reports, lister_calls>>

\* A test for None, which a list never is.
DatabasesIsNone(l) == l # l

\* if not databases (line 198)
NoDatabases(l) == l = <<>>

\* Lines 188-189: get_all_databases_metadata is called and names were given.
BeginSpecified ==
    /\ pc = "idle"
    /\ op # "get_all_databases_metadata"
    /\ self_database_name # <<>>
    /\ run_first_id' = next_id
    /\ op' = "get_all_databases_metadata"
    /\ branch' = "specified"
    /\ databases' = self_database_name
    /\ metadata_reports' = <<>>
    /\ idx' = 0
    /\ outcomes' = <<>>
    /\ lister_calls' = 0
    /\ raised' = NoError
    /\ pc' = "loop"
    /\ UNCHANGED <<reclaims, arg_dialect, arg_database_name, self_username, self_password,
                   self_hostname, self_port, self_dialect, self_database_name,
                   self_database_url, self_engine, engines, checked_out, next_id, ret,
                   query_result, mask_password>>

\* Lines 196-201: get_all_databases_metadata is called and no name was given.
BeginDiscovered(o) ==
    /\ pc = "idle"
    /\ op # "get_all_databases_metadata"
    /\ self_database_name = <<>>
    /\ run_first_id' = next_id
    /\ op' = "get_all_databases_metadata"
    /\ branch' = "discovered"
    /\ lister_calls' = 1
    /\ metadata_reports' = <<>>
    /\ idx' = 0
    /\ outcomes' = <<>>
    /\ LET r == get_all_databases(Heap, o)
       IN  /\ SetHeap(r.h)
           /\ raised' = r.exc
           /\ databases' = r.value
           /\ IF r.exc # NoError
              THEN pc' = "done" /\ UNCHANGED ret
              ELSE IF NoDatabases(r.value)
              THEN /\ ret' = "No databases found or failed to fetch databases."
                   /\ pc' = "done"
              ELSE pc' = "loop" /\ UNCHANGED ret
    /\ UNCHANGED <<reclaims, arg_dialect, arg_database_name, self_username, self_password,
                   self_hostname, self_port, self_dialect, self_database_name,
                   self_database_url, query_result, mask_password>>

\* Lines 190-193 and 202-205: one iteration of the loop over the databases.
ProcessDatabase(o) ==
    /\ pc = "loop"
    /\ idx < Len(databases)
    /\ LET db == databases[idx + 1]
           r == get_database_metadata(Heap, db, o)
       IN  /\ SetHeap(r.h)
           /\ raised' = r.exc
           /\ outcomes' = Append(outcomes, o)
           /\ idx' = idx + 1
           /\ IF r.exc # NoError
              THEN pc' = "done" /\ UNCHANGED metadata_reports
              ELSE /\ pc' = "loop"
                   /\ metadata_reports' =
                          IF Truthy(r.value)
                          THEN Append(metadata_reports, generate_schema_report(db, r.value.val))
                          ELSE metadata_reports
    /\ UNCHANGED <<run_first_id, reclaims, op, arg_dialect, arg_database_name, self_username,
                   self_password, self_hostname, self_port, self_dialect,
                   self_database_name, self_database_url, ret, query_result,
                   mask_password, branch, databases, lister_calls>>

\* Lines 194 and 207: the loop is over, the reports are joined and returned.
ReturnReports ==
    /\ pc = "loop"
    /\ idx = Len(databases)
    /\ ret' = IF branch = "specified" THEN SpecifiedResult(metadata_reports)
              ELSE DiscoveredResult(metadata_reports)
    /\ pc' = "done"
    /\ UNCHANGED <<run_first_id, reclaims, op, arg_dialect, arg_database_name, self_username,
                   self_password, self_hostname, self_port, self_dialect,
                   self_database_name, self_database_url, self_engine, engines,
                   checked_out, next_id, raised, query_result, mask_password, branch,
                   databases, idx, metadata_reports, outcomes, lister_calls>>

Next ==
    \/ \E u \in Usernames, p \in Passwords, h \in Hostnames, n \in Ports,
          d \in Dialects, a \in DatabaseNameArguments : Construct(u, p, h, n, d, a)
    \/ \E m \in BOOLEAN : CallGetDatabaseUrl(m)
    \/ \E d \in DatabaseNames, o \in QueryOutcomes : CallExecuteQuery(d, o)
    \/ BeginSpecified
    \/ \E o \in ListOutcomes : BeginDiscovered(o)
    \/ \E o \in ReflectOutcomes : ProcessDatabase(o)
    \/ ReturnReports

Spec == Init /\ [][Next]_vars

----------------------------------------------------------------------------
\* Vocabulary of the properties.

GetAllDatabasesMetadataReturned ==
    pc = "done" /\ op = "get_all_databases_metadata"

\* The reflection of a database succeeded with at least one table.
Survived(o) == o.at = "" /\ o.data # <<>>

RECURSIVE SurvivorsFrom(_)
\* The names of the databases processed from the k-th on that survived, in order.
SurvivorsFrom(k) ==
    IF k > Len(outcomes) THEN <<>>
    ELSE (IF Survived(outcomes[k]) THEN <<databases[k]>> ELSE <<>>) \o SurvivorsFrom(k + 1)

HeaderLine ==
    "Database Name        Tables                         Columns                                                     "
DashLine ==
    "--------------------------------------------------------------------------------------------------------------"
WorldRow ==
    "world                city                           id, name, countrycode                                       "
WorldRelationships ==
    "                                                   Relationships: countrycode -> country.code"
\* The report of database world holding the one table city(id, name, countrycode)
\* with the foreign key countrycode -> country.code, written out.
WorldReport == HeaderLine \o "\n" \o DashLine \o "\n" \o WorldRow \o "\n" \o WorldRelationships

\* The positions in text where the row after a header line and a dash line starts.
SectionStarts(text) ==
    {k \in 225..(Len(text) - 19) :
        /\ SubSeq(text, k - 1, k - 1) = "\n"
        /\ SubSeq(text, k - 2, k - 2) = "-"
        /\ SubSeq(text, k - 224, k - 1) = HeaderLine \o "\n" \o DashLine \o "\n"
        /\ (k = 225 \/ SubSeq(text, k - 226, k - 225) = "\n\n")}

RECURSIVE SectionNames(_, _)
\* The Database Name fields of the sections that start at the positions P, in order.
SectionNames(text, P) ==
    IF P = {} THEN <<>>
    ELSE LET m == CHOOSE x \in P : \A y \in P : x <= y
         IN  <<SubSeq(text, m, m + 19)>> \o SectionNames(text, P \ {m})

\* Engines holding an open connection that nothing has closed.
Unreleased == {e \in engines : e.pooled > 0}

\* Those of them that the running get_all_databases_metadata call created.
UnreleasedOfRun == {e \in Unreleased : e.id >= run_first_id}

\* s is empty or holds spaces only.
Blank(s) == \A k \in 1..Len(s) : SubSeq(s, k, k) = " "

----------------------------------------------------------------------------
\* Properties.

\* C1: with names given, the report returned holds one section for each database
\* whose reflection gave at least one table, in the order requested, and none for
\* a database that failed or gave no table; every database is reflected, whatever
\* happened to those before it.
C1_SectionsOfSurvivors ==
    (GetAllDatabasesMetadataReturned /\ branch = "specified") =>
        LET survivors == SurvivorsFrom(1)
        IN  /\ raised = NoError
            /\ Len(outcomes) = Len(self_database_name)
            /\ Len(metadata_reports) = Len(survivors)
            /\ SectionNames(ret, SectionStarts(ret))
                   = [k \in 1..Len(survivors) |-> LJust(survivors[k], 20)]
            /\ Count(ret, HeaderLine) = Len(survivors)
            /\ ~Contains(ret, "No metadata found for database")

C1_Witness ==
    /\ GetAllDatabasesMetadataReturned /\ branch = "specified"
    /\ Len(outcomes) = 2
    /\ outcomes[1].at = "connect"
    /\ Survived(outcomes[2])
    /\ SectionNames(ret, SectionStarts(ret)) = <<LJust(databases[2], 20)>>

\* C2: between two databases of a run no engine holds an open connection, and at
\* no point more than one engine does.
C2_EnginesReleased ==
    /\ (op = "get_all_databases_metadata" /\ pc = "loop" /\ idx >= 1 /\ idx < Len(databases))
           => UnreleasedOfRun = {}
    /\ op = "get_all_databases_metadata" => Cardinality(UnreleasedOfRun) <= 1

\* C3: execute_query raises nothing; when creating the engine, connecting or
\* executing failed it returns None; no connection stays checked out.
C3_ExecuteQueryNeverRaises ==
    op = "execute_query" =>
        /\ raised = NoError
        /\ outcomes[1].at # "" => query_result = None
        /\ outcomes[1].at = "" => query_result = Some(outcomes[1].data)
        /\ checked_out = 0

C3_Witness ==
    /\ op = "execute_query"
    /\ outcomes[1].at = "execute"
    /\ query_result = None
    /\ Unreleased # {}

\* C4: when databases were listed, by the caller or by the server, and none of
\* them produced a report, the result is a "no metadata found" message.
C4_NoMetadataMessage ==
    (GetAllDatabasesMetadataReturned /\ raised = NoError /\ databases # <<>>
        /\ SurvivorsFrom(1) = <<>>)
    => Contains(ret, "No metadata found")

\* The names ["world", "employees"] were given, reflection of world found the
\* one table city and reflection of employees failed.
C5_Scenario ==
    /\ GetAllDatabasesMetadataReturned
    /\ self_database_name = <<"world", "employees">>
    /\ Len(outcomes) = 2
    /\ outcomes[1] = Succeeds(<<city>>)
    /\ outcomes[2].at # ""

\* C5, as stated: in that scenario the output holds the world report followed
\* by a blank line, and nothing about employees.
C5_ReportThenBlankLine ==
    C5_Scenario => Contains(ret, WorldReport \o "\n\n") /\ ~Contains(ret, "employees")

\* C5, amended: in that scenario the output is the world report and nothing
\* else: no blank line follows it, and nothing about employees.
C5_ReportOnly ==
    C5_Scenario =>
        /\ ret = WorldReport
        /\ ~Contains(ret, "\n\n")
        /\ ~Contains(ret, "employees")

C5_Witness == C5_Scenario /\ outcomes[2].at = "reflect" /\ Contains(ret, "Relationships")

\* C6: get_database_url can be called on a constructed object; masked, its URL
\* holds **** and not the password, unmasked it holds the password.
C6_MaskedURL ==
    op = "get_database_url" =>
        /\ raised = NoError
        /\ mask_password => Contains(ret, ":****@") /\ ~Contains(ret, self_password)
        /\ ~mask_password => Contains(ret, self_password)

\* C7: with a supported dialect, a non-blank name gives a one-element sequence,
\* an empty or blank name the empty sequence, a list itself, and any other shape
\* the InvalidArgument error.
C7_Normalization ==
    (pc # "new" /\ arg_dialect \in {"mysql", "postgresql", "oracle"}) =>
        LET a == arg_database_name
        IN  /\ (a.type = "str" /\ ~Blank(a.str)) =>
                   pc # "raised" /\ self_database_name = <<a.str>>
            /\ (a.type = "str" /\ Blank(a.str)) =>
                   pc # "raised" /\ self_database_name = <<>>
            /\ a.type = "list" => pc # "raised" /\ self_database_name = a.list
            /\ a.type \notin {"str", "list"} =>
                   /\ pc = "raised"
                   /\ raised.type = "ValueError"
                   /\ Contains(raised.msg, "database_name must be")

\* C8: a dialect other than mysql, postgresql and oracle makes construction fail
\* with the error listing exactly these three, whatever the other arguments, and
\* no engine exists; with one of the three that error is never raised.
C8_UnsupportedDialect ==
    pc # "new" =>
        IF arg_dialect \in {"mysql", "postgresql", "oracle"}
        THEN ~Contains(raised.msg, "Unsupported dialect")
        ELSE /\ pc = "raised"
             /\ raised = Error("ValueError",
                    "Unsupported dialect. Supported dialects: ['mysql', 'postgresql', 'oracle']")
             /\ engines = {} /\ self_engine = 0

C8_Witness ==
    /\ pc = "raised"
    /\ arg_dialect = "sqlite"
    /\ arg_database_name.type = "int"
    /\ Contains(raised.msg, "'oracle']")

\* C9: with names given and none of them surviving, the result is exactly
\* "No metadata found for the specified databases.", every name was reflected
\* and the databases were never listed.
C9_NoneSurvived ==
    (GetAllDatabasesMetadataReturned /\ self_database_name # <<>>
        /\ \A k \in 1..Len(outcomes) : ~Survived(outcomes[k]))
    => /\ ret = "No metadata found for the specified databases."
       /\ raised = NoError
       /\ Len(outcomes) = Len(self_database_name)
       /\ lister_calls = 0

C9_Witness ==
    /\ GetAllDatabasesMetadataReturned
    /\ Len(self_database_name) = 2
    /\ Len(outcomes) = 2
    /\ outcomes[1].at = "reflect"
    /\ outcomes[2] = Succeeds(<<>>)
    /\ ret = "No metadata found for the specified databases."

\* C10: with no name given and no database listed, because the server has none
\* or because listing failed, the result is exactly
\* "No databases found or failed to fetch databases." and nothing is reflected.
C10_NoDatabases ==
    (op = "get_all_databases_metadata" /\ branch = "discovered" /\ databases = <<>>)
    => /\ pc = "done"
       /\ raised = NoError
       /\ ret = "No databases found or failed to fetch databases."
       /\ outcomes = <<>>
       /\ idx = 0

C10_Witness ==
    /\ GetAllDatabasesMetadataReturned
    /\ branch = "discovered"
    /\ lister_calls = 1
    /\ databases = <<>>
    /\ engines # {}
    /\ Unreleased = {}
    /\ ret = "No databases found or failed to fetch databases."

====
